---------------------------- MODULE Spec2Model ----------------------------
(***************************************************************************)
(* A model of src/puzzles/day_16.rs (ianbrault/aoc2022): the valve-id      *)
(* codec, the graph store, the graph compressor, the Floyd-Warshall        *)
(* refinement, the single-agent search and the two-agent partition search; *)
(* of Range::reduce of src/puzzles/day_15.rs; and of the packet ordering   *)
(* of src/puzzles/day_13.rs.                                               *)
(*                                                                         *)
(* Strings are sequences of Unicode code points.  Unsigned 64-bit values   *)
(* are modelled with a word of U64Bits bits (TLC's integers are 32 bits    *)
(* wide): U64_MAX is the all-ones word, and an addition or multiplication  *)
(* that leaves the word either panics (overflow checks on, the dev         *)
(* profile) or wraps modulo 2^U64Bits (overflow checks off, the release    *)
(* profile).  The build profile is the state variable overflow_checks.     *)
(***************************************************************************)
EXTENDS Integers, Sequences, FiniteSets, TLC

VARIABLES
    overflow_checks,  \* the build: TRUE = arithmetic overflow panics, FALSE = it wraps
    label,            \* codec: the &str handed to Valve::from
    encoded,          \* codec: the Valve(u16) built from label, or PANIC
    shown,            \* codec: format!("{}", encoded)
    cpc,              \* codec: "idle" | "input" | "encoded" | "shown"
    flow_rates,       \* FlowRates: valve id -> rate, U64_MAX when unset
    tunnel_map,       \* TunnelMap: valve id -> the ordered list of connected ids
    distances,        \* Distances: valve id -> valve id -> distance, U64_MAX when unset
    pc,               \* run(): "idle" | "parsed" | "compressed" | "refined" | "part1" | "done" | "rec" | "crashed" | "refined_again"
    part_1,           \* Solution part 1
    part_2,           \* Solution part 2
    rec,              \* the last direct call of find_max_pressure_release_rec: [limit, value]
    ranges,           \* day 15: the Vec<Range> handed to Range::reduce
    output,           \* day 15: `output` of Range::reduce
    prev_len,         \* day 15: `prev_len` of Range::reduce
    rpc,              \* day 15: "idle" | "called" | "looping" | "returned"
    left,             \* day 13: `self` of a call of PacketData::cmp
    right,            \* day 13: `other` of that call
    ordering,         \* day 13: "unset" | "Less" | "Greater" | "panic", cmp(left, right)
    ordering_rev      \* day 13: the same for cmp(right, left)

codecVars == <<label, encoded, shown, cpc>>
runVars == <<flow_rates, tunnel_map, distances, pc, part_1, part_2, rec>>
rangeVars == <<ranges, output, prev_len, rpc>>
packetVars == <<left, right, ordering, ordering_rev>>
vars == <<overflow_checks, label, encoded, shown, cpc, flow_rates, tunnel_map,
          distances, pc, part_1, part_2, rec, ranges, output, prev_len, rpc,
          left, right, ordering, ordering_rev>>

-----------------------------------------------------------------------------
(* Bounds of the model.                                                    *)

U64Bits == 16
MaxLabelLen == 2
MaxRate == 2
MaxEdges == 3
MaxTime == 6
MaxRanges == 3
MaxCoord == 4
MaxPacketLen == 2
MaxPacketInt == 1

(* Program constants.                                                      *)

CHAR_BASE == 65
TIME_LIMIT == 30
TIME_LIMIT_WITH_ELEPHANT == 26
VALVE_BUF_SIZE == 1024
MAX_CONNECTIONS == 5

U16_WORD == 65536
U64_WORD == 2 ^ U64Bits
U64_MAX == U64_WORD - 1

\* the outcome of a panic (an unwrap of None, an arithmetic overflow with
\* overflow checks on, a stack overflow)
PANIC == 0 - 1

\* no value yet
NONE == 0 - 2

-----------------------------------------------------------------------------
(* Checked / wrapping machine arithmetic.                                  *)

\* u16 subtraction a - b
SubU16(a, b) ==
    IF a = PANIC \/ b = PANIC THEN PANIC
    ELSE IF a >= b THEN a - b
    ELSE IF overflow_checks THEN PANIC
    ELSE a - b + U16_WORD

\* u64 addition a + b
AddU64(a, b) ==
    IF a = PANIC \/ b = PANIC THEN PANIC
    ELSE IF a + b <= U64_MAX THEN a + b
    ELSE IF overflow_checks THEN PANIC
    ELSE (a + b) % U64_WORD

\* u64 subtraction a - b
SubU64(a, b) ==
    IF a = PANIC \/ b = PANIC THEN PANIC
    ELSE IF a >= b THEN a - b
    ELSE IF overflow_checks THEN PANIC
    ELSE a - b + U64_WORD

\* u64 multiplication a * b
MulU64(a, b) ==
    IF a = PANIC \/ b = PANIC THEN PANIC
    ELSE IF a * b <= U64_MAX THEN a * b
    ELSE IF overflow_checks THEN PANIC
    ELSE (a * b) % U64_WORD

\* `x as i64` of a u64: the same bits read as two's complement
AsI64(x) == IF x >= U64_WORD \div 2 THEN x - U64_WORD ELSE x

\* cmp::min, cmp::max
cmp_min(a, b) == IF a <= b THEN a ELSE b
cmp_max(a, b) == IF a >= b THEN a ELSE b

-----------------------------------------------------------------------------
(* utils::nchar and the Valve codec.                                       *)

\* s.chars().nth(n).unwrap(), n counted from 0
nchar(s, n) == IF n < Len(s) THEN s[n + 1] ELSE PANIC

\* `c as u16` of a char: the code point truncated to 16 bits
CharAsU16(c) == IF c = PANIC THEN PANIC ELSE c % U16_WORD

\* x & 0x1F
And1F(x) == x % 32

\* (x << 5) | y for x, y < 32: the shifted x has its low five bits clear
Shl5Or(x, y) == ((x * 32) % U16_WORD) + y

\* Valve::from with the first letter shifted by four bits instead of five
Valve_from_shift4(s) ==
    LET a == SubU16(CharAsU16(nchar(s, 0)), CHAR_BASE)
        b == SubU16(CharAsU16(nchar(s, 1)), CHAR_BASE)
    IN  IF a = PANIC \/ b = PANIC THEN PANIC
        ELSE ((And1F(a) * 16) % U16_WORD) + And1F(b)

\* impl From<&str> for Valve
Valve_from(s) ==
    LET ca == nchar(s, 0)
        cb == nchar(s, 1)
        a == SubU16(CharAsU16(ca), CHAR_BASE)
        b == SubU16(CharAsU16(cb), CHAR_BASE)
    IN  IF ca = PANIC \/ cb = PANIC \/ a = PANIC \/ b = PANIC THEN PANIC
        ELSE Shl5Or(And1F(a), And1F(b))

\* impl fmt::Display for Valve
Valve_fmt(v) ==
    LET a == And1F(v \div 32) + CHAR_BASE
        b == And1F(v) + CHAR_BASE
    IN  <<a, b>>


-----------------------------------------------------------------------------
(* The valve ids of the model: the labels AA .. FF.  The tables            *)
(* of the program have VALVE_BUF_SIZE rows; every row and column of an id  *)
(* that no input label names holds only the initial sentinel and is never  *)
(* written, so the tables are kept over Valves alone and the loops over    *)
(* 0..VALVE_BUF_SIZE visit Valves in ascending order.                      *)

Labels == {<<c, c>> : c \in CHAR_BASE .. (CHAR_BASE + 5)}
Valves == {Shl5Or(l[1] - CHAR_BASE, l[2] - CHAR_BASE) : l \in Labels}

\* the elements of a finite set of integers in ascending order
RECURSIVE Ascending(_)
Ascending(S) ==
    IF S = {} THEN <<>>
    ELSE LET m == CHOOSE x \in S : \A y \in S : x <= y
         IN  <<m>> \o Ascending(S \ {m})

Reverse(s) == [i \in 1..Len(s) |-> s[Len(s) + 1 - i]]

ValveSeq == Ascending(Valves)

\* FlowRates::new()
FlowRates_new == [v \in Valves |-> U64_MAX]

\* TunnelMap::new(); TunnelMap::connections reads a row up to the first
\* u16::MAX, so a row is the list of the ids set in it
TunnelMap_new == [v \in Valves |-> <<>>]

\* Distances::new()
Distances_new == [a \in Valves |-> [b \in Valves |-> U64_MAX]]

\* Distances::set
Distances_set(d, a, b, value) == [d EXCEPT ![a][b] = value]

-----------------------------------------------------------------------------
(* The graph compressor.  A result is [ok, d]: ok is FALSE when the        *)
(* traversal recurses forever (the stack overflows), d is the table.  A    *)
(* call's control flow depends on (from, to, prev) alone, so a call that   *)
(* is reached again while it is still on the stack never returns.          *)

RECURSIVE add_valve_connected_nodes(_, _, _, _, _, _, _, _)
RECURSIVE add_valve_connected_nodes_loop(_, _, _, _, _, _, _, _, _)

\* the body of `for &vid in tunnel_map.connections(to)`, from index i on
add_valve_connected_nodes_loop(rates, tunnels, acc, from, to, prev, distance, stack, i) ==
    IF ~acc.ok \/ i > Len(tunnels[to]) THEN acc
    ELSE LET vid == tunnels[to][i]
             next ==
                 IF vid = from \/ vid = prev THEN acc
                 ELSE IF rates[vid] = 0 /\ vid # 0
                      THEN add_valve_connected_nodes(rates, tunnels, acc, from, vid, to,
                                                     distance + 1, stack)
                      ELSE [acc EXCEPT !.d = Distances_set(acc.d, from, vid, distance)]
         IN  add_valve_connected_nodes_loop(rates, tunnels, next, from, to, prev,
                                            distance, stack, i + 1)

add_valve_connected_nodes(rates, tunnels, acc, from, to, prev, distance, stack) ==
    IF <<to, prev>> \in stack THEN [acc EXCEPT !.ok = FALSE]
    ELSE add_valve_connected_nodes_loop(rates, tunnels, acc, from, to, prev, distance,
                                        stack \cup {<<to, prev>>}, 1)

RECURSIVE get_valve_graph_conns(_, _, _, _, _)
\* the body of `for &v in tunnel_map.connections(vid)`, from index i on
get_valve_graph_conns(rates, tunnels, acc, vid, i) ==
    IF ~acc.ok \/ i > Len(tunnels[vid]) THEN acc
    ELSE LET v == tunnels[vid][i]
             next ==
                 IF rates[v] = 0 /\ v # 0
                 THEN add_valve_connected_nodes(rates, tunnels, acc, vid, v, vid, 2, {})
                 ELSE [acc EXCEPT !.d = Distances_set(acc.d, vid, v, 1)]
         IN  get_valve_graph_conns(rates, tunnels, next, vid, i + 1)

RECURSIVE get_valve_graph_loop(_, _, _, _)
\* the body of `for (vid, &flow_rate) in flow_rates.0.iter().enumerate()`
get_valve_graph_loop(rates, tunnels, acc, i) ==
    IF ~acc.ok \/ i > Len(ValveSeq) THEN acc
    ELSE LET vid == ValveSeq[i]
             flow_rate == rates[vid]
             next ==
                 IF flow_rate = U64_MAX \/ (flow_rate = 0 /\ vid # 0) THEN acc
                 ELSE get_valve_graph_conns(rates, tunnels,
                          [acc EXCEPT !.d = Distances_set(acc.d, vid, vid, 0)], vid, 1)
         IN  get_valve_graph_loop(rates, tunnels, next, i + 1)

get_valve_graph(rates, tunnels) ==
    get_valve_graph_loop(rates, tunnels, [ok |-> TRUE, d |-> Distances_new], 1)

-----------------------------------------------------------------------------
(* Floyd-Warshall, in place.  The loop over j reads d[i][j] and d[k][j]    *)
(* and writes d[i][j] only, so no step of it reads an entry an earlier     *)
(* step of the same loop wrote: the row is updated at once.  Finite        *)
(* distances are hop counts, far below the word, so dik + dkj is exact.    *)

floyd_warshall_j(d, k, i, dik) ==
    [d EXCEPT ![i] = [j \in Valves |->
        LET dij == d[i][j]
            dkj == d[k][j]
        IN  IF dkj = U64_MAX THEN dij
            ELSE IF dij > dik + dkj THEN dik + dkj
            ELSE dij]]

RECURSIVE floyd_warshall_i(_, _, _)
floyd_warshall_i(d, k, n) ==
    IF n > Len(ValveSeq) THEN d
    ELSE LET i == ValveSeq[n]
             dik == d[i][k]
         IN  floyd_warshall_i(IF dik = U64_MAX THEN d ELSE floyd_warshall_j(d, k, i, dik),
                              k, n + 1)

RECURSIVE floyd_warshall_k(_, _)
\* the body of `for k in 0..(VALVE_BUF_SIZE as u16)`; the table a pivot leaves
\* is compared with the one it was given, which has TLC evaluate it before
\* it goes on with the next pivot
floyd_warshall_k(d, n) ==
    IF n > Len(ValveSeq) THEN d
    ELSE LET next == floyd_warshall_i(d, ValveSeq[n], 1)
         IN  IF next = d THEN floyd_warshall_k(d, n + 1)
             ELSE floyd_warshall_k(next, n + 1)

\* the refinement through the first pivot only (k = 0)
floyd_warshall_first_pivot_only(d) == floyd_warshall_i(d, ValveSeq[1], 1)

\* a refinement that is done for the first table only and skipped afterwards
floyd_warshall_first_table_only(d) == IF pc = "compressed" THEN floyd_warshall_k(d, 1) ELSE d

floyd_warshall(d) == floyd_warshall_k(d, 1)

-----------------------------------------------------------------------------
(* The single-agent search.  info is VolcanoInfo: [flow_rates, distances]. *)
(* open_valves is the HashMap<u16, bool>.  A HashMap iterates its keys in  *)
(* an order its hasher decides: hash_order is that order for the run, one  *)
(* of HashOrders.  A result is a u64, or PANIC.                            *)

VolcanoInfo_new(rates, d) == [flow_rates |-> rates, distances |-> d]

HashOrders == {"ascending", "descending"}

\* the keys S in the iteration order of the map
HashIter(S, hash_order) ==
    IF hash_order = "ascending" THEN Ascending(S) ELSE Reverse(Ascending(S))

valve_heuristic(info, target, from) ==
    AsI64(info.flow_rates[target]) - AsI64(info.distances[from][target])

\* one insertion of the stable sort by ha.cmp(&hb): x goes behind every
\* element whose key is not greater than its own
RECURSIVE InsertByKey(_, _, _)
InsertByKey(sorted, x, key) ==
    IF sorted = <<>> THEN <<x>>
    ELSE IF key[x] < key[Head(sorted)] THEN <<x>> \o sorted
    ELSE <<Head(sorted)>> \o InsertByKey(Tail(sorted), x, key)

RECURSIVE SortByKey(_, _)
SortByKey(s, key) ==
    IF s = <<>> THEN <<>>
    ELSE InsertByKey(SortByKey(SubSeq(s, 1, Len(s) - 1), key), s[Len(s)], key)

\* the unopened valves, sorted by the heuristic
Candidates(info, open_valves, valve, hash_order) ==
    LET unopened == {v \in DOMAIN open_valves : ~open_valves[v]}
        h == [v \in unopened |-> valve_heuristic(info, v, valve)]
    IN  SortByKey(HashIter(unopened, hash_order), h)

\* the first result instead of the greatest
ResultsMax_first(results) == IF results = <<>> THEN PANIC ELSE Head(results)

\* results.into_iter().max().unwrap(); a panic in any branch ends the program
RECURSIVE ResultsMax(_)
ResultsMax(results) ==
    IF results = <<>> THEN PANIC
    ELSE IF Head(results) = PANIC THEN PANIC
    ELSE IF Len(results) = 1 THEN Head(results)
    ELSE LET m == ResultsMax(Tail(results))
         IN  IF m = PANIC THEN PANIC
             ELSE IF Head(results) >= m THEN Head(results) ELSE m

\* the extrapolation without the time unit in progress: dt = time_limit - time
Extrapolate_without_current_unit(time, flow_rate, flow_volume, time_limit) ==
    LET dt == SubU64(time_limit, time)
    IN  AddU64(flow_volume, MulU64(dt, flow_rate))

\* the extrapolation that adds the rate to dt instead of multiplying by it
Extrapolate_adding_rate(time, flow_rate, flow_volume, time_limit) ==
    LET dt == AddU64(SubU64(time_limit, time), 1)
    IN  AddU64(flow_volume, AddU64(dt, flow_rate))

\* flow_volume + dt * flow_rate with dt = time_limit - time + 1
Extrapolate(time, flow_rate, flow_volume, time_limit) ==
    LET dt == AddU64(SubU64(time_limit, time), 1)
    IN  AddU64(flow_volume, MulU64(dt, flow_rate))

\* the test on the new time with a strict comparison
BeyondTimeLimit_strict(t, time_limit) == t > time_limit

\* `if t >= time_limit`: the candidate cannot be opened before the limit
BeyondTimeLimit(t, time_limit) == t >= time_limit

\* the return at `time == time_limit`, right after the valve is opened
TimeLimitReached(time, flow_rate, flow_volume, time_limit) == flow_volume

RECURSIVE find_max_pressure_release_rec(_, _, _, _, _, _, _, _)
RECURSIVE find_max_pressure_release_results(_, _, _, _, _, _, _, _, _)

\* the search without the check that all valves are open: with nothing
\* left to open it takes the maximum of an empty results vector
find_max_pressure_release_rec_without_all_open_check(info, open_valves0, valve, time0, flow_rate0, flow_volume0, time_limit, hash_order) ==
    LET opens == valve # 0
        time == IF opens THEN AddU64(time0, 1) ELSE time0
        flow_volume == IF opens THEN AddU64(flow_volume0, flow_rate0) ELSE flow_volume0
        flow_rate ==
            IF opens THEN AddU64(flow_rate0, info.flow_rates[valve]) ELSE flow_rate0
        open_valves == IF opens THEN (valve :> TRUE) @@ open_valves0 ELSE open_valves0
    IN  IF time = PANIC \/ flow_volume = PANIC \/ flow_rate = PANIC THEN PANIC
        ELSE IF opens /\ time = time_limit
             THEN TimeLimitReached(time, flow_rate, flow_volume, time_limit)
        ELSE ResultsMax(find_max_pressure_release_results(info, open_valves, valve,
                 time, flow_rate, flow_volume, time_limit, hash_order,
                 Candidates(info, open_valves, valve, hash_order)))

\* the body of `for vid in candidates.into_iter()`: the results vector
find_max_pressure_release_results(info, open_valves, valve, time, flow_rate, flow_volume, time_limit, hash_order, candidates) ==
    IF candidates = <<>> THEN <<>>
    ELSE LET vid == Head(candidates)
             distance == info.distances[valve][vid]
             t == AddU64(time, distance)
             res ==
                 IF t = PANIC THEN PANIC
                 ELSE IF BeyondTimeLimit(t, time_limit)
                      THEN Extrapolate(time, flow_rate, flow_volume, time_limit)
                      ELSE LET new_flow_volume ==
                                   AddU64(flow_volume, MulU64(flow_rate, distance))
                           IN  IF new_flow_volume = PANIC THEN PANIC
                               ELSE find_max_pressure_release_rec(info, open_valves, vid, t,
                                        flow_rate, new_flow_volume, time_limit, hash_order)
         IN  IF res = PANIC THEN <<PANIC>>
             ELSE <<res>> \o find_max_pressure_release_results(info, open_valves, valve,
                                 time, flow_rate, flow_volume, time_limit, hash_order,
                                 Tail(candidates))

find_max_pressure_release_rec(info, open_valves0, valve, time0, flow_rate0, flow_volume0, time_limit, hash_order) ==
    LET opens == valve # 0
        time == IF opens THEN AddU64(time0, 1) ELSE time0
        flow_volume == IF opens THEN AddU64(flow_volume0, flow_rate0) ELSE flow_volume0
        flow_rate ==
            IF opens THEN AddU64(flow_rate0, info.flow_rates[valve]) ELSE flow_rate0
        open_valves == IF opens THEN (valve :> TRUE) @@ open_valves0 ELSE open_valves0
    IN  IF time = PANIC \/ flow_volume = PANIC \/ flow_rate = PANIC THEN PANIC
        ELSE IF opens /\ time = time_limit
             THEN TimeLimitReached(time, flow_rate, flow_volume, time_limit)
        ELSE IF \A v \in DOMAIN open_valves : open_valves[v]
             THEN Extrapolate(time, flow_rate, flow_volume, time_limit)
        ELSE ResultsMax(find_max_pressure_release_results(info, open_valves, valve,
                 time, flow_rate, flow_volume, time_limit, hash_order,
                 Candidates(info, open_valves, valve, hash_order)))

\* the greatest element of a finite set of naturals, 0 when it is empty
MaxOf(S) == IF S = {} THEN 0 ELSE CHOOSE x \in S : \A y \in S : y <= x

\* the depth of the call stack of find_max_pressure_release_rec: 1 for a
\* call that returns without recursing, and one more than the deepest of
\* the calls made in `for vid in candidates.into_iter()` otherwise
RECURSIVE find_max_pressure_release_rec_depth(_, _, _, _, _, _, _)
find_max_pressure_release_rec_depth(info, open_valves0, valve, time0, flow_rate0, flow_volume0, time_limit) ==
    LET opens == valve # 0
        time == IF opens THEN AddU64(time0, 1) ELSE time0
        flow_volume == IF opens THEN AddU64(flow_volume0, flow_rate0) ELSE flow_volume0
        flow_rate ==
            IF opens THEN AddU64(flow_rate0, info.flow_rates[valve]) ELSE flow_rate0
        open_valves == IF opens THEN (valve :> TRUE) @@ open_valves0 ELSE open_valves0
        unopened == {v \in DOMAIN open_valves : ~open_valves[v]}
        calls(vid) ==
            LET distance == info.distances[valve][vid]
                t == AddU64(time, distance)
                new_flow_volume == AddU64(flow_volume, MulU64(flow_rate, distance))
            IN  IF t = PANIC \/ t >= time_limit \/ new_flow_volume = PANIC THEN 0
                ELSE find_max_pressure_release_rec_depth(info, open_valves, vid, t,
                         flow_rate, new_flow_volume, time_limit)
    IN  IF time = PANIC \/ flow_volume = PANIC \/ flow_rate = PANIC THEN 1
        ELSE IF opens /\ time = time_limit THEN 1
        ELSE IF unopened = {} THEN 1
        ELSE 1 + MaxOf({calls(vid) : vid \in unopened})

\* the valves with a flow rate that is neither 0 nor unset
PositiveValves(info) ==
    {v \in Valves : info.flow_rates[v] # 0 /\ info.flow_rates[v] # U64_MAX}

\* every positive valve as a map to false, whatever valve_set holds
OpenValvesOf_every_positive_valve(valve_set) ==
    (0 :> TRUE) @@ [v \in {w \in Valves : flow_rates[w] # 0 /\ flow_rates[w] # U64_MAX} |-> FALSE]

\* valve_set as a map to false, with the start valve inserted as open
OpenValvesOf(valve_set) == (0 :> TRUE) @@ [v \in valve_set |-> FALSE]

\* find_max_pressure_release, with the time limit of the call as a parameter
find_max_pressure_release_in(info, time_limit, hash_order) ==
    find_max_pressure_release_rec(info, OpenValvesOf(PositiveValves(info)), 0, 1, 0, 0,
                                  time_limit, hash_order)

find_max_pressure_release(info, hash_order) ==
    find_max_pressure_release_in(info, TIME_LIMIT, hash_order)

-----------------------------------------------------------------------------
(* The two-agent partition search.                                         *)

\* itertools' combinations(n) of a sequence, in its lexicographic order,
\* each combination collected into a set
RECURSIVE Combinations(_, _)
Combinations(s, n) ==
    IF n = 0 THEN <<{}>>
    ELSE IF Len(s) < n THEN <<>>
    ELSE LET with == Combinations(Tail(s), n - 1)
         IN  [i \in 1..Len(with) |-> {Head(s)} \cup with[i]] \o Combinations(Tail(s), n)

RECURSIVE generate_valve_partitions_from(_, _)
\* the body of `for n in 0..=n_valves`, from n on
generate_valve_partitions_from(valves, n) ==
    LET n_valves == Len(valves)
        valves_set == {valves[i] : i \in 1..n_valves}
        combos == Combinations(valves, n)
        here ==
            IF n = 0 THEN << <<{}, valves_set>> >>
            ELSE IF n = n_valves THEN << <<valves_set, {}>> >>
            ELSE [i \in 1..Len(combos) |-> <<combos[i], valves_set \ combos[i]>>]
    IN  IF n > n_valves THEN <<>>
        ELSE here \o generate_valve_partitions_from(valves, n + 1)

\* the partitions without the pair (empty, all): the sizes start at 1
generate_valve_partitions_from_size_1(info) ==
    generate_valve_partitions_from(Ascending(PositiveValves(info)), 1)

generate_valve_partitions(info) ==
    generate_valve_partitions_from(Ascending(PositiveValves(info)), 0)

count_valves(info) == Cardinality(PositiveValves(info))

\* the filter with strict comparisons: a split survives only above the cutoff
SplitSurvives_strict(a, b, cutoff) == Cardinality(a) > cutoff /\ Cardinality(b) > cutoff

\* the filter on the partitions: both sets hold at least cutoff valves
SplitSurvives(a, b, cutoff) == Cardinality(a) >= cutoff /\ Cardinality(b) >= cutoff

get_max_pressure_release_from_valve_set(info, valve_set, hash_order) ==
    find_max_pressure_release_rec(info, OpenValvesOf(valve_set), 0, 1, 0, 0,
                                  TIME_LIMIT_WITH_ELEPHANT, hash_order)

RECURSIVE find_max_pressure_release_with_elephant_loop(_, _, _, _, _)
\* the body of `for (human_valves, elephant_valves) in valve_sets_filtered`
find_max_pressure_release_with_elephant_loop(info, valve_sets, i, max_pressure, hash_order) ==
    IF i > Len(valve_sets) \/ max_pressure = PANIC THEN max_pressure
    ELSE LET human_pressure ==
                 get_max_pressure_release_from_valve_set(info, valve_sets[i][1], hash_order)
             elephant_pressure ==
                 get_max_pressure_release_from_valve_set(info, valve_sets[i][2], hash_order)
             sum == AddU64(human_pressure, elephant_pressure)
             next == IF sum = PANIC THEN PANIC
                     ELSE IF sum > max_pressure THEN sum ELSE max_pressure
         IN  find_max_pressure_release_with_elephant_loop(info, valve_sets, i + 1, next,
                                                          hash_order)

find_max_pressure_release_with_elephant(info, hash_order) ==
    LET valve_sets == generate_valve_partitions(info)
        cutoff == count_valves(info) \div 4
        valve_sets_filtered ==
            SelectSeq(valve_sets, LAMBDA p : SplitSurvives(p[1], p[2], cutoff))
    IN  find_max_pressure_release_with_elephant_loop(info, valve_sets_filtered, 1, 0,
                                                     hash_order)

-----------------------------------------------------------------------------
(* PacketData of src/puzzles/day_13.rs and its ordering.  A PacketData is  *)
(* [tag, int, list]: Integer(n) has tag "Integer" and int = n, List(items) *)
(* has tag "List" and list = items.  An Option<Ordering> is "Less",        *)
(* "Greater" or "None"; the code never builds Ordering::Equal.             *)

\* PacketData::Integer
PacketData_Integer(n) == [tag |-> "Integer", int |-> n, list |-> <<>>]

\* PacketData::List
PacketData_List(items) == [tag |-> "List", int |-> 0, list |-> items]

\* PacketData::make_list
PacketData_make_list(self) ==
    IF self.tag = "Integer" THEN PacketData_List(<<self>>) ELSE self

\* PacketData::len, called on a list
PacketData_len(self) == Len(self.list)

\* PacketData::item_at, called on a list, i counted from 0
PacketData_item_at(self, i) == self.list[i + 1]

RECURSIVE PacketData_partial_cmp(_, _)
RECURSIVE PacketData_partial_cmp_items(_, _, _)

\* the body of `for i in 0..bound`, from i on, and the test on the lengths
\* that follows the loop
PacketData_partial_cmp_items(left_packet, right_packet, i) ==
    LET bound == cmp_min(PacketData_len(left_packet), PacketData_len(right_packet))
        left_item == PacketData_item_at(left_packet, i)
        right_item == PacketData_item_at(right_packet, i)
        continue == PacketData_partial_cmp_items(left_packet, right_packet, i + 1)
        lists == PacketData_partial_cmp(left_item, right_item)
        converted == PacketData_partial_cmp(PacketData_make_list(left_item),
                                            PacketData_make_list(right_item))
    IN  IF i >= bound
        THEN IF PacketData_len(right_packet) > bound THEN "Less"
             ELSE IF PacketData_len(left_packet) > bound THEN "Greater"
             ELSE "None"
        ELSE IF left_item.tag = "Integer" /\ right_item.tag = "Integer"
             THEN IF left_item.int < right_item.int THEN "Less"
                  ELSE IF left_item.int > right_item.int THEN "Greater"
                  ELSE continue
        ELSE IF left_item.tag = "List" /\ right_item.tag = "List"
             THEN IF lists = "Less" THEN "Less"
                  ELSE IF lists = "Greater" THEN "Greater"
                  ELSE continue
        ELSE IF converted # "None" THEN converted
        ELSE continue

\* impl cmp::PartialOrd for PacketData
PacketData_partial_cmp(self, other) == PacketData_partial_cmp_items(self, other, 0)

\* Option::unwrap: the Ordering of Some, a panic for None
Ordering_unwrap(result) == IF result = "None" THEN "panic" ELSE result

\* impl cmp::Ord for PacketData
PacketData_cmp(self, other) == Ordering_unwrap(PacketData_partial_cmp(self, other))

-----------------------------------------------------------------------------
(* The inputs.                                                             *)

\* the sequences that list every element of S once
Perms(S) ==
    {p \in [1..Cardinality(S) -> S] : \A i, j \in 1..Cardinality(S) : p[i] = p[j] => i = j}

START == ValveSeq[1]

\* the valves b with an edge a -> b in the edge set E
Targets(E, a) == {b \in Valves : <<a, b>> \in E}

\* the code points of the labels the codec is tried on: '@' (below 'A'),
\* 'A'..'Z', '['..'`' (up to 'A' + 31) and 'a' ('A' + 32)
CodecChars == (CHAR_BASE - 1) .. (CHAR_BASE + 32)

CodecLabels == UNION {[1..n -> CodecChars] : n \in 0..MaxLabelLen}

\* the labels of the puzzle grammar: two letters 'A'..'Z'
ValidLabels == [1..2 -> CHAR_BASE .. (CHAR_BASE + 25)]

CodecIdle == label = <<>> /\ encoded = NONE /\ shown = <<>> /\ cpc = "idle"

RangeIdle == ranges = <<>> /\ output = <<>> /\ prev_len = 0 /\ rpc = "idle"

PacketIdle ==
    /\ left = PacketData_List(<<>>)
    /\ right = PacketData_List(<<>>)
    /\ ordering = "unset"
    /\ ordering_rev = "unset"

RunIdle ==
    /\ flow_rates = FlowRates_new
    /\ tunnel_map = TunnelMap_new
    /\ distances = Distances_new
    /\ pc = "idle"
    /\ part_1 = NONE
    /\ part_2 = NONE
    /\ rec = [limit |-> 0, value |-> NONE]

\* the state run() is in once the two tables rates and tunnels are parsed
Parsed(rates, tunnels) ==
    /\ flow_rates = rates
    /\ tunnel_map = tunnels
    /\ distances = Distances_new
    /\ pc = "parsed"
    /\ part_1 = NONE
    /\ part_2 = NONE
    /\ rec = [limit |-> 0, value |-> NONE]

\* the tunnel map of a symmetric graph: every valve lists its neighbours in
\* ascending order
SymmetricTunnels(E) ==
    [v \in Valves |-> Ascending(Targets(E, v) \cup {a \in Valves : <<a, v>> \in E})]

\* the first five valves
TreeValves == {ValveSeq[i] : i \in 1..5}

\* a tree over the first five valves, rooted at the start valve: every other
\* valve has a tunnel to and from one valve of a lower id; all rates positive
InitTree ==
    \E parent \in [TreeValves \ {START} -> TreeValves] :
    \E rates \in [TreeValves \ {START} -> 1..MaxRate] :
        /\ \A v \in TreeValves \ {START} : parent[v] < v
        /\ Parsed((START :> 0) @@ rates @@ FlowRates_new,
                  SymmetricTunnels({<<v, parent[v]>> : v \in TreeValves \ {START}}))

\* a tree of one-way tunnels over all six valves, rooted at the start valve:
\* every other valve is listed by one valve of a lower id and lists no way
\* back; the third valve has rate 0, the four others rate 1
InitOneWay ==
    \E parent \in [Valves \ {START} -> Valves] :
        /\ \A v \in Valves \ {START} : parent[v] < v
        /\ Parsed([v \in Valves |-> IF v \in {START, ValveSeq[3]} THEN 0 ELSE 1],
                  [v \in Valves |-> Ascending({c \in Valves \ {START} : parent[c] = v})])

\* the rates of the small directed graphs: 0, and the two rates of the
\* end-to-end scenario (CC = 2, BB = 13)
DigraphRates == {0, 2, 13}

\* every directed graph over the first three valves, every listing order
InitDigraph ==
    LET a == ValveSeq[1]
        b == ValveSeq[2]
        c == ValveSeq[3]
        three == {a, b, c}
        lists(v) == UNION {Perms(S) : S \in SUBSET (three \ {v})}
    IN  \E la \in lists(a), lb \in lists(b), lc \in lists(c) :
        \E rb, rc \in DigraphRates :
            Parsed((a :> 0) @@ (b :> rb) @@ (c :> rc) @@ FlowRates_new,
                   (a :> la) @@ (b :> lb) @@ (c :> lc) @@ TunnelMap_new)

\* the empty input: no valve has a record
InitEmpty == Parsed(FlowRates_new, TunnelMap_new)

Init ==
    /\ overflow_checks \in BOOLEAN
    /\ CodecIdle
    /\ RangeIdle
    /\ PacketIdle
    /\ InitTree \/ InitDigraph \/ InitOneWay \/ InitEmpty

-----------------------------------------------------------------------------
(* run(): the stages of the program.                                       *)

info == VolcanoInfo_new(flow_rates, distances)

\* let mut distances = get_valve_graph(&flow_rates, &tunnel_map);
Compress ==
    /\ pc = "parsed"
    /\ LET r == get_valve_graph(flow_rates, tunnel_map)
       IN  /\ distances' = r.d
           /\ pc' = IF r.ok THEN "compressed" ELSE "crashed"
    /\ UNCHANGED <<overflow_checks, codecVars, flow_rates, tunnel_map, part_1, part_2, rec, rangeVars, packetVars>>

\* floyd_warshall(&mut distances);
Refine ==
    /\ pc = "compressed"
    /\ distances' = floyd_warshall(distances)
    /\ pc' = "refined"
    /\ UNCHANGED <<overflow_checks, codecVars, flow_rates, tunnel_map, part_1, part_2, rec, rangeVars, packetVars>>

\* let max_pressure = find_max_pressure_release(&info);
Part1 ==
    /\ pc = "refined"
    /\ \E hash_order \in HashOrders :
           part_1' = find_max_pressure_release(info, hash_order)
    /\ pc' = IF part_1' = PANIC THEN "crashed" ELSE "part1"
    /\ UNCHANGED <<overflow_checks, codecVars, flow_rates, tunnel_map, distances, part_2, rec, rangeVars, packetVars>>

\* let max_pressure_w_elephant = find_max_pressure_release_with_elephant(&info);
Part2 ==
    /\ pc = "part1"
    /\ \E hash_order \in HashOrders :
           part_2' = find_max_pressure_release_with_elephant(info, hash_order)
    /\ pc' = IF part_2' = PANIC THEN "crashed" ELSE "done"
    /\ UNCHANGED <<overflow_checks, codecVars, flow_rates, tunnel_map, distances, part_1, rec, rangeVars, packetVars>>

\* a call of find_max_pressure_release_rec as find_max_pressure_release
\* makes it, with a time limit of 1..MaxTime
CallRec ==
    /\ pc = "refined"
    /\ \E time_limit \in 1..MaxTime, hash_order \in HashOrders :
           rec' = [limit |-> time_limit,
                   value |-> find_max_pressure_release_in(info, time_limit, hash_order)]
    /\ pc' = "rec"
    /\ UNCHANGED <<overflow_checks, codecVars, flow_rates, tunnel_map, distances, part_1, part_2, rangeVars, packetVars>>

Next == Compress \/ Refine \/ Part1 \/ Part2 \/ CallRec

Spec == Init /\ [][Next]_vars

-----------------------------------------------------------------------------
(* The graph stages on their own, on every directed graph over the first   *)
(* four valves with at most MaxEdges tunnels (a tunnel from a valve to     *)
(* itself included), in every listing order; a valve other than the start  *)
(* has no record (and then lists no tunnel), rate 0 or rate 1; and on the  *)
(* rings of three valves entered from the start valve.  These stages do    *)
(* no arithmetic that can leave the word, so one build stands for both.    *)

GraphRates == {U64_MAX, 0, 1}

\* a ring of one-way tunnels through the three valves after the start valve,
\* entered from the start valve; each valve of the ring has rate 0 or 1
InitRing ==
    LET a == ValveSeq[1]
        b == ValveSeq[2]
        c == ValveSeq[3]
        d == ValveSeq[4]
    IN  \E rb, rc, rd \in {0, 1} :
            Parsed((a :> 0) @@ (b :> rb) @@ (c :> rc) @@ (d :> rd) @@ FlowRates_new,
                   (a :> <<b>>) @@ (b :> <<c>>) @@ (c :> <<d>>) @@ (d :> <<b>>)
                       @@ TunnelMap_new)

\* every directed graph over the first four valves with at most MaxEdges
\* tunnels, in every listing order
InitSmallGraph ==
    LET a == ValveSeq[1]
        b == ValveSeq[2]
        c == ValveSeq[3]
        d == ValveSeq[4]
        four == {a, b, c, d}
    IN  \E E \in SUBSET (four \X four) :
            /\ Cardinality(E) <= MaxEdges
            /\ \E la \in Perms(Targets(E, a)), lb \in Perms(Targets(E, b)),
                  lc \in Perms(Targets(E, c)), ld \in Perms(Targets(E, d)) :
               \E rb, rc, rd \in GraphRates :
                   /\ rb = U64_MAX => lb = <<>>
                   /\ rc = U64_MAX => lc = <<>>
                   /\ rd = U64_MAX => ld = <<>>
                   /\ Parsed((a :> 0) @@ (b :> rb) @@ (c :> rc) @@ (d :> rd) @@ FlowRates_new,
                          (a :> la) @@ (b :> lb) @@ (c :> lc) @@ (d :> ld) @@ TunnelMap_new)

InitGraph ==
    /\ overflow_checks = TRUE
    /\ CodecIdle
    /\ RangeIdle
    /\ PacketIdle
    /\ InitSmallGraph \/ InitRing

\* get_valve_graph and floyd_warshall called a second time on the same
\* flow_rates and tunnel_map, the new table replacing the first one
RunAgain ==
    /\ pc = "refined"
    /\ LET r == get_valve_graph(flow_rates, tunnel_map)
       IN  /\ distances' = IF r.ok THEN floyd_warshall(r.d) ELSE r.d
           /\ pc' = IF r.ok THEN "refined_again" ELSE "crashed"
    /\ UNCHANGED <<overflow_checks, codecVars, flow_rates, tunnel_map, part_1, part_2, rec, rangeVars, packetVars>>

NextGraph == Compress \/ Refine \/ RunAgain

SpecGraph == InitGraph /\ [][NextGraph]_vars

-----------------------------------------------------------------------------
(* The codec on its own: Valve::from on a label, then Display.             *)

InitCodec ==
    /\ overflow_checks \in BOOLEAN
    /\ RunIdle
    /\ RangeIdle
    /\ PacketIdle
    /\ label \in CodecLabels
    /\ encoded = NONE
    /\ shown = <<>>
    /\ cpc = "input"

\* Valve::from(label)
EncodeLabel ==
    /\ cpc = "input"
    /\ encoded' = Valve_from(label)
    /\ cpc' = IF encoded' = PANIC THEN "panicked" ELSE "encoded"
    /\ UNCHANGED <<overflow_checks, label, shown, runVars, rangeVars, packetVars>>

\* format!("{}", encoded)
ShowValve ==
    /\ cpc = "encoded"
    /\ shown' = Valve_fmt(encoded)
    /\ cpc' = "shown"
    /\ UNCHANGED <<overflow_checks, label, encoded, runVars, rangeVars, packetVars>>

NextCodec == EncodeLabel \/ ShowValve

SpecCodec == InitCodec /\ [][NextCodec]_vars

-----------------------------------------------------------------------------
(* The claims about the codec, under SpecCodec.                            *)

\* a label the claim C10 calls malformed: shorter than two characters, or
\* one of its two characters is not in 'A'..'Z'
Malformed(l) ==
    \/ Len(l) < 2
    \/ \E i \in 1..2 : l[i] \notin CHAR_BASE .. (CHAR_BASE + 25)

\* C7: on the two-letter labels over 'A'..'Z' the codec is a bijection:
\* Valve::from never panics, the id is below VALVE_BUF_SIZE, it holds the
\* first letter in its upper five bits and the second in its lower five
\* (so "AA" is 0), no other label has the same id, and Display gives the
\* label back.
C7_CodecBijection ==
    (label \in ValidLabels /\ cpc # "input") =>
        /\ cpc \in {"encoded", "shown"}
        /\ encoded \in 0 .. (VALVE_BUF_SIZE - 1)
        /\ encoded \div 32 = label[1] - CHAR_BASE
        /\ encoded % 32 = label[2] - CHAR_BASE
        /\ (label = <<CHAR_BASE, CHAR_BASE>> => encoded = 0)
        /\ \A other \in ValidLabels : other # label => Valve_from(other) # encoded
        /\ (cpc = "shown" => shown = label)

\* C7's case: "FC" was encoded to (5 << 5) | 2 and shown again
C7_Witness ==
    /\ cpc = "shown"
    /\ label = <<CHAR_BASE + 5, CHAR_BASE + 2>>
    /\ encoded = 162
    /\ shown = label

\* C10: encoding a malformed label is fatal: Valve::from panics and no id
\* is produced.
C10_MalformedIsFatal ==
    (Malformed(label) /\ cpc # "input") => (cpc = "panicked" /\ encoded = PANIC)

-----------------------------------------------------------------------------
(* Reference definitions the claims are stated with.                       *)

\* the greatest element of a non-empty finite set of integers
SetMax(S) == CHOOSE x \in S : \A y \in S : y <= x

\* the interesting valves: a positive rate, or the start valve
Interesting(rates) ==
    {v \in Valves : rates[v] # U64_MAX /\ (rates[v] # 0 \/ v = START)}

\* the fewest tunnels from a to b in the raw graph, by breadth-first search;
\* U64_MAX when b cannot be reached
RECURSIVE HopsFrom(_, _, _, _)
HopsFrom(tunnels, frontier, b, k) ==
    LET next == frontier \cup
                {tunnels[v][i] : <<v, i>> \in
                    {<<w, n>> \in frontier \X (1..MAX_CONNECTIONS) : n <= Len(tunnels[w])}}
    IN  IF b \in frontier THEN k
        ELSE IF next = frontier THEN U64_MAX
        ELSE HopsFrom(tunnels, next, b, k + 1)

HopDistance(tunnels, a, b) == HopsFrom(tunnels, {a}, b, 0)

\* every distance between two interesting valves is finite
AllFinite(i) ==
    \A a, b \in Interesting(i.flow_rates) : i.distances[a][b] # U64_MAX

\* the value an agent at valve `at` at time `time` accumulates by the end
\* of time unit T when it visits the valves of seq in order: a move costs
\* the distance, opening costs one more time unit, and an open valve adds
\* its rate in every later time unit up to T; the agent stops at a valve it
\* cannot reach or cannot open before T ends
RECURSIVE PathValue(_, _, _, _, _)
PathValue(i, at, time, seq, T) ==
    IF seq = <<>> THEN 0
    ELSE LET v == Head(seq)
             d == i.distances[at][v]
             flows_from == time + d + 1
         IN  IF d = U64_MAX \/ flows_from > T THEN 0
             ELSE i.flow_rates[v] * (T - flows_from + 1)
                  + PathValue(i, v, flows_from, Tail(seq), T)

\* every ordering of every subset of S
Orderings(S) == UNION {Perms(sub) : sub \in SUBSET S}

\* the best value over every ordering of every subset of S
BestValue(i, S, T) == SetMax({PathValue(i, START, 1, seq, T) : seq \in Orderings(S)})

\* the positive-rate valves of the input at hand
Positive == PositiveValves(info)

\* the single-agent search restricted to the valves of A, 26-unit budget
Search26(A) == get_max_pressure_release_from_valve_set(info, A, "ascending")

\* the splits (A, Positive \ A) that the size cutoff keeps, named by A
SurvivingSplits ==
    LET cutoff == Cardinality(Positive) \div 4
    IN  {A \in SUBSET Positive :
            Cardinality(A) >= cutoff /\ Cardinality(Positive \ A) >= cutoff}

\* the input has exactly one positive valve, reachable from the start valve
SingleValve ==
    /\ Cardinality(Positive) = 1
    /\ \A v \in Positive : distances[START][v] # U64_MAX

\* the input AA (rate 0) -> BB (rate 13) -> CC (rate 2), one-way tunnels
ExampleInput ==
    /\ flow_rates = (ValveSeq[1] :> 0) @@ (ValveSeq[2] :> 13) @@ (ValveSeq[3] :> 2)
                    @@ FlowRates_new
    /\ tunnel_map = (ValveSeq[1] :> <<ValveSeq[2]>>) @@ (ValveSeq[2] :> <<ValveSeq[3]>>)
                    @@ TunnelMap_new

\* some positive valve is at the sentinel distance of the start valve or of
\* another positive valve
SentinelBetweenInteresting ==
    \E a \in Interesting(flow_rates), b \in Positive :
        a # b /\ distances[a][b] = U64_MAX

-----------------------------------------------------------------------------
(* The search claims, checked under Spec.                                  *)

\* C1: when every distance between interesting valves is finite, the
\* single-agent search with budget T returns the maximum, over every
\* ordering of every subset of the positive valves, of the value
\* accumulated by the end of time unit T.
C1_SearchIsTrueMaximum ==
    AllFinite(info) =>
        /\ pc = "rec" => rec.value = BestValue(info, Positive, rec.limit)
        /\ pc \in {"part1", "done"} => part_1 = BestValue(info, Positive, TIME_LIMIT)

C3_ExampleReturns416 ==
    (ExampleInput /\ pc \in {"part1", "done", "crashed"}) => part_1 = 416

\* C5: the two-agent search returns the maximum, over the splits that
\* survive the size cutoff, of search(A, 26) + search(B, 26).
C5_TwoAgentIsBestSurvivingSplit ==
    pc = "done" =>
        part_2 = SetMax({Search26(A) + Search26(Positive \ A) : A \in SurvivingSplits})

\* four positive valves, so that the cutoff removes the degenerate split,
\* and two agents do better than one
C5_Witness ==
    /\ pc = "done"
    /\ Cardinality(Positive) = 4
    /\ {} \notin SurvivingSplits
    /\ part_2 > Search26(Positive)

\* C6: the two-agent result is at least what the single-agent search
\* obtains over all the positive valves with the same 26-unit budget.
C6_TwoAgentAtLeastSingleAgent ==
    pc = "done" => part_2 >= Search26(Positive)

\* C8: when no valve has a positive rate, both searches return 0 and
\* neither fails.
C8_NoPositiveRateGivesZero ==
    (Positive = {} /\ pc \notin {"parsed", "compressed", "refined"}) =>
        /\ pc # "crashed"
        /\ pc = "rec" => rec.value = 0
        /\ pc \in {"part1", "done"} => part_1 = 0
        /\ pc = "done" => part_2 = 0

\* the start valve and zero-rate valves only, both searches done
C8_Witness ==
    /\ pc = "done"
    /\ Positive = {}
    /\ \E v \in Valves \ {START} : flow_rates[v] = 0
    /\ part_1 = 0
    /\ part_2 = 0

\* C9: a candidate at the sentinel distance is left out: the search does
\* not fail, and returns the best value over the valves that can be reached.
C9_SentinelCandidateExcluded ==
    (SentinelBetweenInteresting /\ pc \in {"part1", "done", "crashed"}) =>
        part_1 = BestValue(info, Positive, TIME_LIMIT)

-----------------------------------------------------------------------------
(* The graph claim, checked under SpecGraph.                               *)

\* C4: after get_valve_graph and floyd_warshall, the distance between two
\* interesting valves is the fewest tunnels from one to the other in the
\* raw graph, and the sentinel when there is no way, whatever the listing
\* order.
C4_DistancesAreHopCounts ==
    pc = "refined" =>
        \A a, b \in Interesting(flow_rates) :
            a # b => distances[a][b] = HopDistance(tunnel_map, a, b)

\* C11: after floyd_warshall, for interesting valves a, b, c with
\* distance(a,b) and distance(b,c) finite, distance(a,c) is finite and at
\* most distance(a,b) + distance(b,c).
C11_TriangleInequality ==
    pc = "refined" =>
        \A a, b, c \in Interesting(flow_rates) :
            (distances[a][b] # U64_MAX /\ distances[b][c] # U64_MAX) =>
                /\ distances[a][c] # U64_MAX
                /\ distances[a][c] <= distances[a][b] + distances[b][c]

\* a chain a -> b -> c of positive valves with no tunnel a -> c: the entry
\* (a, c) is the one the refinement writes
C11_Witness ==
    /\ pc = "refined"
    /\ \E a, b, c \in Interesting(flow_rates) :
        /\ a # b /\ b # c /\ a # c /\ b # START
        /\ HopDistance(tunnel_map, a, c) = 2
        /\ distances[a][b] = 1 /\ distances[b][c] = 1 /\ distances[a][c] = 2

\* every tunnel u -> v of the input has its reverse v -> u
SymmetricInput ==
    \A u, v \in Valves :
        (\E i \in 1..Len(tunnel_map[u]) : tunnel_map[u][i] = v) =>
            (\E j \in 1..Len(tunnel_map[v]) : tunnel_map[v][j] = u)

\* C12: when every tunnel has its reverse, the refined table is symmetric
\* on the interesting valves that reach each other, whatever the listing
\* order.
C12_SymmetricDistances ==
    (pc = "refined" /\ SymmetricInput) =>
        \A a, b \in Interesting(flow_rates) :
            (distances[a][b] # U64_MAX /\ distances[b][a] # U64_MAX) =>
                distances[a][b] = distances[b][a]

QuarterSplits ==
    {A \in SUBSET Positive :
        /\ 4 * Cardinality(A) >= Cardinality(Positive)
        /\ 4 * Cardinality(Positive \ A) >= Cardinality(Positive)}

\* C14: a split with a subset below one quarter of the valves partitioned
\* (4 * size < count) is discarded: the value returned is 0 or the sum of
\* a split that has no such subset, also when a discarded split would sum
\* higher.  Stated on the inputs whose distances are all finite.
C14_SplitBelowQuarterDiscarded ==
    (pc = "done" /\ AllFinite(info)) =>
        part_2 \in {0} \cup {Search26(A) + Search26(Positive \ A) : A \in QuarterSplits}

\* the deepest call stack of the single-agent search with budget T
SearchDepth(T) ==
    find_max_pressure_release_rec_depth(info, OpenValvesOf(Positive), 0, 1, 0, 0, T)

\* C15: on an input whose distances between interesting valves are all
\* finite, the single-agent search with any budget >= 1 returns a value
\* (it never fails, so it never takes the maximum of an empty vector), and
\* its call stack is never deeper than the number of positive valves plus
\* one.
C15_SearchIsTotal ==
    AllFinite(info) =>
        /\ pc = "rec" =>
            /\ rec.value \in 0..U64_MAX
            /\ SearchDepth(rec.limit) <= Cardinality(Positive) + 1
        /\ pc \in {"part1", "done", "crashed"} =>
            /\ part_1 \in 0..U64_MAX
            /\ SearchDepth(TIME_LIMIT) <= Cardinality(Positive) + 1

\* four positive valves all opened in one branch: the stack is five deep
C15_Witness ==
    /\ pc = "part1"
    /\ AllFinite(info)
    /\ Cardinality(Positive) = 4
    /\ SearchDepth(TIME_LIMIT) = 5
    /\ part_1 > 0

-----------------------------------------------------------------------------
(* Range::reduce of src/puzzles/day_15.rs.  A Range is [min, max]; a       *)
(* Vec<Range> is a sequence.  The coordinates of the model are             *)
(* 0..MaxCoord, so no i64 operation leaves its word.                       *)

\* Range::new
Range_new(min, max) == [min |-> min, max |-> max]

\* Range::overlaps, with a range that ends right before the other starts
\* counted as overlapping
Range_overlaps_or_touches(self, other) ==
    \/ (other.min >= self.min /\ other.min <= self.max + 1)
    \/ (other.max >= self.min /\ other.max <= self.max)

\* Range::overlaps
Range_overlaps(self, other) ==
    \/ (other.min >= self.min /\ other.min <= self.max)
    \/ (other.max >= self.min /\ other.max <= self.max)

\* Range::try_combine, as the ranges the caller pushes: the combined range
\* alone for (combined, None), both ranges for (self, Some(other))
Range_try_combine(self, other) ==
    IF Range_overlaps(self, other)
    THEN <<Range_new(cmp_min(self.min, other.min), cmp_max(self.max, other.max))>>
    ELSE <<self, other>>

\* the body of `for (range_a, range_b) in input.iter().group_by_2()`, from
\* the pair at index i on; group_by_2 ends at the first pair that is not
\* complete
RECURSIVE Range_reduction_pass_pairs(_, _)
Range_reduction_pass_pairs(input, i) ==
    IF i + 1 > Len(input) THEN <<>>
    ELSE Range_try_combine(input[i], input[i + 1])
         \o Range_reduction_pass_pairs(input, i + 2)

\* Range::reduction_pass
Range_reduction_pass(input) ==
    LET n_ranges == Len(input)
    IN  Range_reduction_pass_pairs(input, 1)
        \o (IF n_ranges % 2 # 0 THEN <<input[n_ranges]>> ELSE <<>>)

\* output.sort_by(|a, b| a.min.cmp(&b.min)): a stable sort
Range_sort_by_min(s) ==
    SortByKey(s, [r \in {s[i] : i \in 1..Len(s)} |-> r.min])

\* the ranges of the model
Ranges == {Range_new(lo, hi) : <<lo, hi>> \in {p \in (0..MaxCoord) \X (0..MaxCoord) : p[1] <= p[2]}}

\* Range::reduce is called on a vector of at most MaxRanges ranges
InitRanges ==
    /\ overflow_checks = TRUE
    /\ CodecIdle
    /\ RunIdle
    /\ PacketIdle
    /\ ranges \in UNION {[1..n -> Ranges] : n \in 0..MaxRanges}
    /\ output = <<>>
    /\ prev_len = 0
    /\ rpc = "called"

\* let mut output = ranges; output.sort_by(..); let mut prev_len = output.len();
ReduceSort ==
    /\ rpc = "called"
    /\ output' = Range_sort_by_min(ranges)
    /\ prev_len' = Len(output')
    /\ rpc' = "looping"
    /\ UNCHANGED <<overflow_checks, codecVars, runVars, ranges, packetVars>>

\* one iteration of `loop { .. }`
ReducePass ==
    /\ rpc = "looping"
    /\ output' = Range_reduction_pass(output)
    /\ IF Len(output') = 1 \/ Len(output') = prev_len
       THEN rpc' = "returned" /\ prev_len' = prev_len
       ELSE rpc' = "looping" /\ prev_len' = Len(output')
    /\ UNCHANGED <<overflow_checks, codecVars, runVars, ranges, packetVars>>

NextRanges == ReduceSort \/ ReducePass

SpecRanges == InitRanges /\ [][NextRanges]_vars

-----------------------------------------------------------------------------
(* The claims on Range::reduce, checked under SpecRanges.                  *)

\* the integers a vector of ranges covers
Covered(rs) == {x \in 0..MaxCoord : \E i \in 1..Len(rs) : rs[i].min <= x /\ x <= rs[i].max}

\* two ranges share an integer
ShareInteger(a, b) == cmp_max(a.min, b.min) <= cmp_min(a.max, b.max)

\* no two ranges of the vector share an integer
PairwiseDisjoint(rs) ==
    \A i, j \in 1..Len(rs) : i # j => ~ShareInteger(rs[i], rs[j])

\* the vector is ordered by min
OrderedByMin(rs) == \A i, j \in 1..Len(rs) : i < j => rs[i].min <= rs[j].min

\* C16: Range::reduce returns the merged form of its input: ranges ordered
\* by min, no two of which share an integer, that cover exactly the
\* integers the input covers.
C16_ReduceMerges ==
    rpc = "returned" =>
        /\ OrderedByMin(output)
        /\ PairwiseDisjoint(output)
        /\ Covered(output) = Covered(ranges)

\* C17: on pairwise non-overlapping ranges, Range::reduce returns exactly
\* the input ranges ordered by min, and returns after the first pass,
\* which merges nothing.
C17_DisjointInputUnchanged ==
    /\ [](PairwiseDisjoint(ranges) /\ rpc = "returned" =>
            /\ OrderedByMin(output)
            /\ Len(output) = Len(ranges)
            /\ {output[i] : i \in 1..Len(output)} = {ranges[i] : i \in 1..Len(ranges)})
    /\ [][PairwiseDisjoint(ranges) /\ rpc = "looping" =>
            rpc' = "returned" /\ output' = output]_vars

\* three disjoint ranges given out of order, returned in order
C17_Witness ==
    /\ rpc = "returned"
    /\ PairwiseDisjoint(ranges)
    /\ Len(ranges) = 3
    /\ ~OrderedByMin(ranges)
    /\ OrderedByMin(output)

-----------------------------------------------------------------------------
(* The claims on the steps of the single-agent search, checked under Spec. *)

\* C18: when opening a valve brings the time exactly to the time limit,
\* the search returns the accumulated value plus remaining_time * rate,
\* with remaining_time = time_limit - time + 1 = 1 and the rate including
\* the valve just opened.  With one positive valve of rate R at distance d
\* and time limit d + 2 that return is the result: 0 + 1 * R.
C18_ReturnAtTimeLimitExtrapolates ==
    (pc = "rec" /\ SingleValve) =>
        \A v \in Positive :
            LET d == distances[START][v]
                time == d + 2
            IN  rec.limit = time =>
                    rec.value = 0 + (rec.limit - time + 1) * flow_rates[v]

\* the search as the candidate rule describes it, in unbounded integers:
\* a candidate with time + distance >= time_limit is not visited and gives
\* flow_volume + flow_rate * (time_limit - time + 1); any other candidate
\* is visited with time + distance and flow_volume + flow_rate * distance.
\* The two returns of a call that does not look at candidates are those of
\* find_max_pressure_release_rec.
RECURSIVE CandidateRuleSearch(_, _, _, _, _, _, _)
CandidateRuleSearch(i, open_valves0, valve, time0, flow_rate0, flow_volume0, time_limit) ==
    LET opens == valve # 0
        time == IF opens THEN time0 + 1 ELSE time0
        flow_volume == IF opens THEN flow_volume0 + flow_rate0 ELSE flow_volume0
        flow_rate == IF opens THEN flow_rate0 + i.flow_rates[valve] ELSE flow_rate0
        open_valves == IF opens THEN (valve :> TRUE) @@ open_valves0 ELSE open_valves0
        unopened == {v \in DOMAIN open_valves : ~open_valves[v]}
        branch(vid) ==
            LET distance == i.distances[valve][vid]
            IN  IF time + distance >= time_limit
                THEN flow_volume + flow_rate * (time_limit - time + 1)
                ELSE CandidateRuleSearch(i, open_valves, vid, time + distance, flow_rate,
                                         flow_volume + flow_rate * distance, time_limit)
    IN  IF opens /\ time = time_limit THEN flow_volume
        ELSE IF unopened = {} THEN flow_volume + flow_rate * (time_limit - time + 1)
        ELSE SetMax({branch(vid) : vid \in unopened})

\* C19: a candidate with time + distance >= time_limit is not visited and
\* its branch is worth flow_volume + flow_rate * (time_limit - time + 1);
\* every other candidate is visited with time + distance and
\* flow_volume + flow_rate * distance.
C19_CandidateRule ==
    /\ pc = "rec" =>
        rec.value = CandidateRuleSearch(info, OpenValvesOf(Positive), 0, 1, 0, 0, rec.limit)
    /\ pc \in {"part1", "done", "crashed"} =>
        part_1 = CandidateRuleSearch(info, OpenValvesOf(Positive), 0, 1, 0, 0, TIME_LIMIT)

\* the candidates are in non-increasing order of their score
MostPromisingFirst(candidates, from) ==
    \A m, n \in 1..Len(candidates) :
        m < n => valve_heuristic(info, candidates[m], from)
                    >= valve_heuristic(info, candidates[n], from)

\* C20: at a call that looks at candidates, they are explored in
\* non-increasing order of rate(candidate) - distance(current, candidate).
\* Stated for the first call, and for the calls that have opened one valve.
C20_MostPromisingFirst ==
    pc \in {"rec", "part1", "done"} =>
        \A hash_order \in HashOrders :
            /\ MostPromisingFirst(
                   Candidates(info, OpenValvesOf(Positive), START, hash_order), START)
            /\ \A v \in Positive :
                   MostPromisingFirst(
                       Candidates(info, (v :> TRUE) @@ OpenValvesOf(Positive), v, hash_order), v)

-----------------------------------------------------------------------------
(* The order of exploration, checked under Spec.                           *)

\* the values find_max_pressure_release_rec can return when `candidates` is
\* in any order at every call (any iteration order of the HashMap, any
\* placing of equal scores by the sort): the results vector of a call holds
\* one result per candidate, in the order of the candidates
RECURSIVE find_max_pressure_release_rec_outcomes(_, _, _, _, _, _, _)
find_max_pressure_release_rec_outcomes(i, open_valves0, valve, time0, flow_rate0, flow_volume0, time_limit) ==
    LET opens == valve # 0
        time == IF opens THEN AddU64(time0, 1) ELSE time0
        flow_volume == IF opens THEN AddU64(flow_volume0, flow_rate0) ELSE flow_volume0
        flow_rate == IF opens THEN AddU64(flow_rate0, i.flow_rates[valve]) ELSE flow_rate0
        open_valves == IF opens THEN (valve :> TRUE) @@ open_valves0 ELSE open_valves0
        unopened == {v \in DOMAIN open_valves : ~open_valves[v]}
        branch(vid) ==
            LET distance == i.distances[valve][vid]
                t == AddU64(time, distance)
                new_flow_volume == AddU64(flow_volume, MulU64(flow_rate, distance))
            IN  IF t = PANIC THEN {PANIC}
                ELSE IF t >= time_limit
                     THEN {Extrapolate(time, flow_rate, flow_volume, time_limit)}
                ELSE IF new_flow_volume = PANIC THEN {PANIC}
                ELSE find_max_pressure_release_rec_outcomes(i, open_valves, vid, t,
                         flow_rate, new_flow_volume, time_limit)
        branches == [vid \in unopened |-> branch(vid)] @@ <<>>
        res == {f \in [unopened -> UNION {branches[vid] : vid \in unopened}] :
                    \A vid \in unopened : f[vid] \in branches[vid]}
    IN  IF time = PANIC \/ flow_volume = PANIC \/ flow_rate = PANIC THEN {PANIC}
        ELSE IF opens /\ time = time_limit
             THEN {TimeLimitReached(time, flow_rate, flow_volume, time_limit)}
        ELSE IF unopened = {}
             THEN {Extrapolate(time, flow_rate, flow_volume, time_limit)}
        ELSE {ResultsMax([n \in 1..Cardinality(unopened) |-> f[candidates[n]]]) :
                  <<f, candidates>> \in res \X Perms(unopened)}

\* the values the single-agent search with budget T can return
SearchOutcomes(T) ==
    find_max_pressure_release_rec_outcomes(info, OpenValvesOf(Positive), 0, 1, 0, 0, T)

\* C21: the value the single-agent search returns does not depend on the
\* order in which the candidates are explored: for the same tables, visited
\* set and budget, every order of the candidates at every call gives the
\* value the search returned.
C21_OrderOfCandidatesIrrelevant ==
    /\ pc = "rec" => SearchOutcomes(rec.limit) = {rec.value}
    /\ pc \in {"part1", "crashed"} => SearchOutcomes(TIME_LIMIT) = {part_1}

\* two candidates of the first call have the same score and the two
\* iteration orders of the map explore them in different orders, and
\* visiting one first is worth more than visiting the other first
C21_Witness ==
    /\ pc = "rec"
    /\ rec.value > 0
    /\ Candidates(info, OpenValvesOf(Positive), START, "ascending")
           # Candidates(info, OpenValvesOf(Positive), START, "descending")
    /\ \E a, b \in Positive :
        /\ valve_heuristic(info, a, START) = valve_heuristic(info, b, START)
        /\ PathValue(info, START, 1, <<a, b>>, rec.limit)
               # PathValue(info, START, 1, <<b, a>>, rec.limit)

-----------------------------------------------------------------------------
(* The visited flags across sibling branches, checked under Spec.          *)

\* the caller's open_valves once a recursive call has returned, had the call
\* been handed the caller's own map instead of a clone: what the call left
\* in it
open_valves_after_call_shared(open_valves, callee_map) == callee_map

\* the caller's open_valves once a recursive call has returned: the call was
\* handed open_valves.clone(), a map of its own (callee_map when it
\* returns), so the caller's map is as it was
open_valves_after_call(open_valves, callee_map) == open_valves

\* The search with its maps made explicit.  A call gives [value, entered,
\* open_valves, calls, frame]: the value returned, the call's map after its
\* opening step, the call's map when it returns, its frame, and one record per
\* recursive call made below it: [vid, before, entered, after, frame,
\* caller], the candidate, the caller's map before the call, the callee's
\* map after its opening step, the caller's map after the call, the
\* callee's time, rate and volume on entry (time0, ..) and after its opening
\* step (time, ..), and the caller's rate and volume at the call.
RECURSIVE find_max_pressure_release_rec_maps(_, _, _, _, _, _, _, _)
RECURSIVE find_max_pressure_release_results_maps(_, _, _, _, _, _, _, _, _, _, _)

\* the body of `for vid in candidates.into_iter()`
find_max_pressure_release_results_maps(i, open_valves, valve, time, flow_rate, flow_volume, time_limit, hash_order, candidates, results, calls) ==
    IF candidates = <<>>
    THEN [results |-> results, open_valves |-> open_valves, calls |-> calls]
    ELSE LET vid == Head(candidates)
             distance == i.distances[valve][vid]
             t == AddU64(time, distance)
             new_flow_volume == AddU64(flow_volume, MulU64(flow_rate, distance))
             r == find_max_pressure_release_rec_maps(i, open_valves, vid, t, flow_rate,
                      new_flow_volume, time_limit, hash_order)
             after == open_valves_after_call(open_valves, r.open_valves)
             call == [vid |-> vid, before |-> open_valves, entered |-> r.entered,
                      after |-> after, frame |-> r.frame,
                      caller |-> [flow_rate |-> flow_rate, flow_volume |-> flow_volume]]
         IN  IF t = PANIC \/ (~BeyondTimeLimit(t, time_limit) /\ new_flow_volume = PANIC)
             THEN [results |-> results \o <<PANIC>>, open_valves |-> open_valves,
                   calls |-> calls]
             ELSE IF BeyondTimeLimit(t, time_limit)
             THEN find_max_pressure_release_results_maps(i, open_valves, valve, time,
                      flow_rate, flow_volume, time_limit, hash_order, Tail(candidates),
                      results \o <<Extrapolate(time, flow_rate, flow_volume, time_limit)>>,
                      calls)
             ELSE IF r.value = PANIC
             THEN [results |-> results \o <<PANIC>>, open_valves |-> after,
                   calls |-> calls \cup r.calls \cup {call}]
             ELSE find_max_pressure_release_results_maps(i, after, valve, time,
                      flow_rate, flow_volume, time_limit, hash_order, Tail(candidates),
                      results \o <<r.value>>, calls \cup r.calls \cup {call})

find_max_pressure_release_rec_maps(i, open_valves0, valve, time0, flow_rate0, flow_volume0, time_limit, hash_order) ==
    LET opens == valve # 0
        time == IF opens THEN AddU64(time0, 1) ELSE time0
        flow_volume == IF opens THEN AddU64(flow_volume0, flow_rate0) ELSE flow_volume0
        flow_rate == IF opens THEN AddU64(flow_rate0, i.flow_rates[valve]) ELSE flow_rate0
        open_valves == IF opens THEN (valve :> TRUE) @@ open_valves0 ELSE open_valves0
        frame == [time_limit |-> time_limit, time0 |-> time0, time |-> time,
                  flow_rate0 |-> flow_rate0, flow_rate |-> flow_rate,
                  flow_volume0 |-> flow_volume0, flow_volume |-> flow_volume]
        leaf(value) == [value |-> value, entered |-> open_valves,
                        open_valves |-> open_valves, calls |-> {}, frame |-> frame]
        l == find_max_pressure_release_results_maps(i, open_valves, valve, time,
                 flow_rate, flow_volume, time_limit, hash_order,
                 Candidates(i, open_valves, valve, hash_order), <<>>, {})
    IN  IF time = PANIC \/ flow_volume = PANIC \/ flow_rate = PANIC THEN leaf(PANIC)
        ELSE IF opens /\ time = time_limit
             THEN leaf(TimeLimitReached(time, flow_rate, flow_volume, time_limit))
        ELSE IF \A v \in DOMAIN open_valves : open_valves[v]
             THEN leaf(Extrapolate(time, flow_rate, flow_volume, time_limit))
        ELSE [value |-> ResultsMax(l.results), entered |-> open_valves,
              open_valves |-> l.open_valves, calls |-> l.calls, frame |-> frame]

\* the single-agent search with budget T, with its maps
SearchMaps(T) ==
    find_max_pressure_release_rec_maps(info, OpenValvesOf(Positive), 0, 1, 0, 0, T,
                                       "ascending")

\* the valves a map flags as open
Visited(open_valves) == {v \in DOMAIN open_valves : open_valves[v]}

\* no recursive call of the search s changed its caller's map, and each
\* started from its caller's visited set plus its own candidate
SiblingsIndependent(s) ==
    \A c \in s.calls :
        /\ c.after = c.before
        /\ DOMAIN c.entered = DOMAIN c.before
        /\ Visited(c.entered) = Visited(c.before) \cup {c.vid}

-----------------------------------------------------------------------------
(* The partitions of the two-agent search, checked under Spec.             *)

\* the partitions generate_valve_partitions returns for the input at hand
Partitions == generate_valve_partitions(info)

\* C23: for n positive valves generate_valve_partitions returns exactly 2^n
\* pairs (A, B): every subset A of the positive valves is the first set of
\* exactly one pair, B is the complement of A (so A and B are disjoint and
\* together the positive valves), the start valve is in neither, the two
\* degenerate pairs (empty, all) and (all, empty) are there, and for n = 0
\* the one pair is (empty, empty).
C23_PartitionsAreAllSubsets ==
    pc = "done" =>
        LET all == Positive
            n == Cardinality(all)
            pairs == Partitions
        IN  /\ Len(pairs) = 2 ^ n
            /\ \A A \in SUBSET all :
                   Cardinality({k \in 1..Len(pairs) : pairs[k][1] = A}) = 1
            /\ \A k \in 1..Len(pairs) :
                   /\ pairs[k][1] \subseteq all
                   /\ pairs[k][2] = all \ pairs[k][1]
                   /\ pairs[k][1] \cap pairs[k][2] = {}
                   /\ pairs[k][1] \cup pairs[k][2] = all
                   /\ START \notin pairs[k][1] \cup pairs[k][2]
            /\ \E k \in 1..Len(pairs) : pairs[k] = <<{}, all>>
            /\ \E k \in 1..Len(pairs) : pairs[k] = <<all, {}>>
            /\ (n = 0 => pairs = << <<{}, {}>> >>)

\* four positive valves: sixteen pairs, some with two valves on each side
C23_Witness ==
    /\ pc = "done"
    /\ Cardinality(Positive) = 4
    /\ Len(Partitions) = 16
    /\ \E k \in 1..Len(Partitions) :
        Cardinality(Partitions[k][1]) = 2 /\ Cardinality(Partitions[k][2]) = 2

\* the search get_max_pressure_release_from_valve_set runs for the agent
\* that is assigned the valves of A, with its maps
SplitSearchMaps(A) ==
    find_max_pressure_release_rec_maps(info, OpenValvesOf(A), 0, 1, 0, 0,
                                       TIME_LIMIT_WITH_ELEPHANT, "ascending")

\* the valves the search s opens in some branch
Activated(s) == {c.vid : c \in s.calls}

\* the partitions that the size cutoff keeps
SurvivingPairs ==
    LET pairs == Partitions
        cutoff == count_valves(info) \div 4
    IN  {pairs[k] : k \in {n \in 1..Len(pairs) :
                              SplitSurvives(pairs[n][1], pairs[n][2], cutoff)}}

\* the valve sets an agent is assigned in some partition that is kept
AgentSets == UNION {{pair[1], pair[2]} : pair \in SurvivingPairs}

\* the search s of the agent assigned A opens only valves of A, and none
\* that the branch has already opened
AgentStaysInSet(s, A) ==
    \A c \in s.calls :
        /\ c.vid \in A
        /\ c.vid \notin Visited(c.before)
        /\ Visited(c.entered) \subseteq A \cup {START}

\* C24: in every branch of the two-agent search for a split (A, B), the
\* agent assigned A opens only valves of A and the agent assigned B only
\* valves of B, so no valve is opened by both agents in a split and no
\* valve's rate is counted twice in the sum of a split.
C24_AgentsStayInTheirSets ==
    pc = "done" =>
        /\ \A A \in AgentSets :
               LET s == SplitSearchMaps(A)
               IN  /\ s.value = Search26(A)
                   /\ AgentStaysInSet(s, A)
                   /\ Activated(s) \subseteq A
        /\ \A pair \in SurvivingPairs : pair[1] \cap pair[2] = {}

\* a split of four valves in two and two where each agent opens both of
\* its valves
C24_Witness ==
    /\ pc = "done"
    /\ \E pair \in SurvivingPairs :
        /\ Cardinality(pair[1]) = 2
        /\ Cardinality(pair[2]) = 2
        /\ Activated(SplitSearchMaps(pair[1])) = pair[1]
        /\ Activated(SplitSearchMaps(pair[2])) = pair[2]

-----------------------------------------------------------------------------
(* The compressed table before the refinement, checked under SpecGraph.    *)

\* the valves listed by a valve of S
Successors(tunnels, S) == {b \in Valves : \E v \in S : \E n \in 1..Len(tunnels[v]) : tunnels[v][n] = b}

\* the fewest tunnels of a walk to b whose interior valves all have rate 0
\* and are not the start valve; frontier holds the valves k tunnels away
\* along such walks, U64_MAX when there is no such walk
RECURSIVE ZeroInteriorHopsFrom(_, _, _, _, _, _)
ZeroInteriorHopsFrom(rates, tunnels, frontier, seen, b, k) ==
    LET through == {v \in frontier : rates[v] = 0 /\ v # 0} \ seen
    IN  IF b \in frontier THEN k
        ELSE IF through = {} THEN U64_MAX
        ELSE ZeroInteriorHopsFrom(rates, tunnels, Successors(tunnels, through),
                                  seen \cup through, b, k + 1)

ZeroInteriorHops(rates, tunnels, a, b) ==
    ZeroInteriorHopsFrom(rates, tunnels, Successors(tunnels, {a}), {}, b, 1)

\* C25: after get_valve_graph and before floyd_warshall, for interesting
\* valves a # b joined by a path whose interior valves all have rate 0 and
\* are not the start valve, distance(a,b) is the fewest tunnels of such a
\* path: 1 when a lists b, also when a longer path through zero-rate valves
\* joins them, whichever neighbour is listed first.
C25_CompressedIsFewestHops ==
    pc = "compressed" =>
        \A a, b \in Interesting(flow_rates) :
            (a # b /\ ZeroInteriorHops(flow_rates, tunnel_map, a, b) # U64_MAX) =>
                distances[a][b] = ZeroInteriorHops(flow_rates, tunnel_map, a, b)

\* C26: for every interesting valve v (a positive rate, or the start valve
\* when the input has a record of it), distance(v,v) is 0 after
\* get_valve_graph and still after floyd_warshall, on every raw graph, a
\* tunnel from v to itself or a cycle through zero-rate valves back to v
\* included; a valve that is not interesting has no entry for itself.
C26_SelfDistanceIsZero ==
    pc \in {"compressed", "refined", "refined_again"} =>
        \A v \in Valves :
            IF v \in Interesting(flow_rates) THEN distances[v][v] = 0
            ELSE distances[v][v] = U64_MAX

\* C27: every entry distance(from, to) that get_valve_graph writes has both
\* valves interesting: a walk ends only at a valve with a positive rate or
\* at the start valve, never at a zero-rate valve and never at a valve
\* whose rate is unset (a neighbour the input has no record of).
C27_EntriesJoinInterestingValves ==
    pc = "compressed" =>
        \A a, b \in Valves :
            distances[a][b] # U64_MAX =>
                (a \in Interesting(flow_rates) /\ b \in Interesting(flow_rates))

\* C28: get_valve_graph returns on every finite raw graph with the rule of
\* not stepping back to the origin or to the valve it came from alone:
\* every walk started from an interesting valve ends, also on a graph with
\* a cycle of three or more zero-rate valves.
C28_CompressionTerminates ==
    pc # "crashed"

-----------------------------------------------------------------------------
(* The times, rates and volumes of the calls, checked under Spec.          *)

\* the frame fr of a call keeps the time within 1..time_limit on entry and
\* after the opening step, and its rate and volume do not decrease in the
\* opening step
FrameInBounds(fr) ==
    /\ 1 <= fr.time0 /\ fr.time0 <= fr.time_limit
    /\ 1 <= fr.time /\ fr.time <= fr.time_limit
    /\ fr.time_limit - fr.time + 1 >= 1
    /\ fr.flow_rate >= fr.flow_rate0
    /\ fr.flow_volume >= fr.flow_volume0

\* every call of the search s has its frame in bounds, and is entered with
\* the rate of its caller and a volume not below the caller's
FramesInBounds(s) ==
    /\ FrameInBounds(s.frame)
    /\ \A c \in s.calls :
        /\ FrameInBounds(c.frame)
        /\ c.frame.flow_rate0 = c.caller.flow_rate
        /\ c.frame.flow_volume0 >= c.caller.flow_volume

\* C29: at every call of find_max_pressure_release_rec reached from a
\* top-level search (time 1, finite distances), 1 <= time <= time_limit
\* holds on entry and after the opening step, so time_limit - time + 1 does
\* not underflow and is at least 1; the volume and the rate never decrease
\* along a branch.
C29_TimeStaysWithinLimit ==
    AllFinite(info) =>
        /\ pc = "rec" =>
            LET s == SearchMaps(rec.limit)
            IN  s.value = rec.value /\ FramesInBounds(s)
        /\ pc = "part1" =>
            LET s == SearchMaps(TIME_LIMIT)
            IN  s.value = part_1 /\ FramesInBounds(s)
        /\ pc = "done" =>
            \A A \in AgentSets : FramesInBounds(SplitSearchMaps(A))

\* a call that opens its valve exactly at the time limit, below a call that
\* opened another valve: the rate and the volume have grown on the way
C29_Witness ==
    /\ pc = "rec"
    /\ AllFinite(info)
    /\ \E c \in SearchMaps(rec.limit).calls :
        /\ c.frame.time = rec.limit
        /\ c.frame.flow_rate0 > 0
        /\ c.frame.flow_volume > 0
        /\ c.frame.flow_rate > c.frame.flow_rate0

-----------------------------------------------------------------------------
(* The packet ordering on its own: PacketData::cmp on two packets of the   *)
(* vector that packets.sort() orders, called in both directions.  A packet *)
(* is a list of at most MaxPacketLen items; an item is an integer of       *)
(* 0..MaxPacketInt or a list of at most MaxPacketLen such integers.        *)

\* the lists of at most MaxPacketLen items of S
PacketLists(S) == {PacketData_List(items) : items \in UNION {[1..n -> S] : n \in 0..MaxPacketLen}}

PacketIntegers == {PacketData_Integer(n) : n \in 0..MaxPacketInt}

\* the packets parse_packets can give: every line is a list
Packets == PacketLists(PacketIntegers \cup PacketLists(PacketIntegers))

InitPackets ==
    /\ overflow_checks = TRUE
    /\ CodecIdle
    /\ RunIdle
    /\ RangeIdle
    /\ left \in Packets
    /\ right \in Packets
    /\ ordering = "unset"
    /\ ordering_rev = "unset"

\* left.cmp(&right); a panic ends the program
Cmp ==
    /\ ordering = "unset"
    /\ ordering_rev # "panic"
    /\ ordering' = PacketData_cmp(left, right)
    /\ UNCHANGED <<overflow_checks, codecVars, runVars, rangeVars, left, right, ordering_rev>>

\* right.cmp(&left); a panic ends the program
CmpReversed ==
    /\ ordering_rev = "unset"
    /\ ordering # "panic"
    /\ ordering_rev' = PacketData_cmp(right, left)
    /\ UNCHANGED <<overflow_checks, codecVars, runVars, rangeVars, left, right, ordering>>

NextPackets == Cmp \/ CmpReversed

SpecPackets == InitPackets /\ [][NextPackets]_vars

\* C30: PacketData::cmp returns an Ordering for every two packets the sort
\* may compare: partial_cmp is not None for them, so the unwrap does not
\* panic, also for two packets that compare as equal (a packet and its
\* duplicate, [1] and [[1]]); and cmp(a, b) is Less exactly when cmp(b, a)
\* is Greater.
C30_CmpIsTotalAndAntisymmetric ==
    /\ ordering # "unset" =>
        /\ PacketData_partial_cmp(left, right) # "None"
        /\ ordering \in {"Less", "Equal", "Greater"}
    /\ ordering_rev # "unset" =>
        /\ PacketData_partial_cmp(right, left) # "None"
        /\ ordering_rev \in {"Less", "Equal", "Greater"}
    /\ (ordering # "unset" /\ ordering_rev # "unset") =>
        (ordering = "Less" <=> ordering_rev = "Greater")

=============================================================================
